---- MODULE Spec2Model ----
(***************************************************************************)
(* The three cache benchmarks of the repository as one state machine:      *)
(*   "base"         src/base.cpp         direct scan, sum of squares       *)
(*   "indirection"  src/indirection.cpp  in-place square through pointers  *)
(*   "demo"         src/demo.cpp         the same, pointers shuffled       *)
(* The three main() functions share one shape; `variant` selects the       *)
(* lines that differ.  Machine types are scaled: int has IntBits bits,     *)
(* unsigned long / size_t / the clock's rep have twice as many.            *)
(***************************************************************************)
EXTENDS Integers, Sequences, FiniteSets, TLC

\* ------------------------------------------------------------------ bounds
\* Number of trials (the source runs 1000).
iterations == 3
\* Length of the data set (the source uses intsInCache * 10).
DataSize == 3
\* Size of clearCache's scratch buffers in bytes (the source uses 8 MiB).
cacheSize == 2
\* Width of int in bits (the source's int has 32).
IntBits == 8

\* --------------------------------------------------------- machine integers
RECURSIVE Pow2(_)
Pow2(n) == IF n = 0 THEN 1 ELSE 2 * Pow2(n - 1)

INT_MAX == Pow2(IntBits - 1) - 1
INT_MIN == -INT_MAX - 1
\* unsigned long, size_t and the clock's tick count are twice as wide as int
ULONG_MOD == Pow2(2 * IntBits)

FitsInt(x) == INT_MIN <= x /\ x <= INT_MAX
\* two's complement wrap of x to int
WrapInt(x) == ((x - INT_MIN) % Pow2(IntBits)) + INT_MIN
\* conversion of a signed value to unsigned long / size_t
ToULong(x) == x % ULONG_MOD
\* C++ integer division truncates toward zero
TruncDiv(a, b) == IF a >= 0 THEN a \div b ELSE -((-a) \div b)

\* (int)sqrt(x) for x >= 0
isqrt(n) == CHOOSE r \in 0..n : r * r <= n /\ (r + 1) * (r + 1) > n
\* (int)sqrt(numeric_limits<int>::max())
SqrtIntMax == isqrt(INT_MAX)

\* C++ evaluates an expression once and then uses its value: F applied to
\* the value of x
Bind(x, F(_)) == CHOOSE y \in {F(v) : v \in {x}} : TRUE

Variants == {"base", "indirection", "demo"}
Indirect(v) == v \in {"indirection", "demo"}

\* ------------------------------------------------------------ random source
\* default_random_engine is a Lehmer generator x' = a*x mod m with state in
\* 1..m-1 (minstd_rand0: a = 16807, m = 2^31 - 1); scaled to a = 3, m = 31.
EngineMul == 3
EngineMod == 31
Seeds == 1..(EngineMod - 1)

minstd(x) == (EngineMul * x) % EngineMod

RECURSIVE EngineN(_, _)
EngineN(x, n) == IF n = 0 THEN x ELSE EngineN(minstd(x), n - 1)

\* uniform_int_distribution<int>(lo, hi) applied to the engine in state g:
\* scale the engine's range down to hi-lo+1 buckets, rejecting the tail.
\* Result: the value, the engine state left behind, the engine calls made.
RECURSIVE ud(_, _, _)
ud(lo, hi, g) ==
    LET uerange   == hi - lo + 1
        urngrange == (EngineMod - 1) - 1
        scaling   == urngrange \div uerange
        past      == uerange * scaling
    IN  Bind(minstd(g), LAMBDA g1 :
            IF g1 - 1 < past
            THEN [val |-> lo + ((g1 - 1) \div scaling), re |-> g1, calls |-> 1]
            ELSE Bind(ud(lo, hi, g1), LAMBDA r : [r EXCEPT !.calls = @ + 1]))

\* variant of udHi: the square root taken of the unsigned maximum
udHiOfUnsignedMax(v) == IF v = "base" THEN 10 ELSE isqrt(2 * INT_MAX + 1)

\* bounds of the distribution `ud` each program constructs
udLo(v) == 1
udHi(v) == IF v = "base" THEN 10 ELSE SqrtIntMax

\* the closure rng = [&] { return ud(re); }: it holds references, so a copy
\* of the closure still draws from, and advances, the engine `re` of main
rng(v, g) == ud(udLo(v), udHi(v), g)

\* populateDataSet(data, rng): for (int& d : data) d = rng();
\* filled from element k on; st = [data, re, calls]
RECURSIVE populateFrom(_, _, _)
populateFrom(v, k, st) ==
    IF k > Len(st.data) THEN st
    ELSE Bind(rng(v, st.re), LAMBDA r :
             populateFrom(v, k + 1,
                 [data  |-> [st.data EXCEPT ![k] = r.val],
                  re    |-> r.re,
                  calls |-> st.calls + r.calls]))

\* variant of populateDataSet: the generator is taken by value, so main's
\* engine is left where it was
populateWithEngineCopy(v, d, g) ==
    Bind([data |-> d, re |-> g, calls |-> 0], LAMBDA st :
        [populateFrom(v, 1, st) EXCEPT !.re = g])

populateDataSet(v, d, g) ==
    Bind([data |-> d, re |-> g, calls |-> 0], LAMBDA st : populateFrom(v, 1, st))

\* -------------------------------------------------------- reference table
\* pointers[i] = &data[i]; an address is modelled by the index it points at
identityTable(n) == [k \in 1..n |-> k]

\* variant of swap: the first entry is overwritten before it is saved
swapLosingEntry(p, a, b) == [p EXCEPT ![a] = p[b], ![b] = p[b]]

swap(p, a, b) == [p EXCEPT ![a] = p[b], ![b] = p[a]]

\* shuffle(begin(pointers), end(pointers), re): for each position from the
\* last down to the second, swap it with a uniformly drawn position at or
\* below it.  st = [p, re, calls]
RECURSIVE shuffleFrom(_, _)
shuffleFrom(k, st) ==
    IF k < 2 THEN st
    ELSE Bind(ud(0, k - 1, st.re), LAMBDA r :
             shuffleFrom(k - 1,
                 [p     |-> swap(st.p, k, r.val + 1),
                  re    |-> r.re,
                  calls |-> st.calls + r.calls]))

shuffle(p, g) ==
    Bind([p |-> p, re |-> g, calls |-> 0], LAMBDA st : shuffleFrom(Len(p), st))

\* ---------------------------------------------------------------- workload
\* d * d in int arithmetic: [val, ub]; signed overflow is undefined
IntSquare(d) == [val |-> WrapInt(d * d), ub |-> ~FitsInt(d * d)]

\* variant of addSquare: the accumulator is an int
addSquareNarrow(sum, d) == WrapInt(sum + IntSquare(d).val)

\* sum += d * d, with unsigned long sum
addSquare(sum, d) == (sum + ToULong(IntSquare(d).val)) % ULONG_MOD

\* base.cpp doWork: st = [sum, ub] after elements k..Len(d)
RECURSIVE sumFrom(_, _, _)
sumFrom(d, k, st) ==
    IF k > Len(d) THEN st
    ELSE Bind([sum |-> addSquare(st.sum, d[k]),
               ub  |-> st.ub \/ IntSquare(d[k]).ub],
              LAMBDA st1 : sumFrom(d, k + 1, st1))

\* int doWork(const vector<int>& data): [ret, ub]
doWorkSum(d) ==
    LET st == sumFrom(d, 1, [sum |-> 0, ub |-> FALSE])
    IN  [ret |-> WrapInt(st.sum \div Len(d)), ub |-> st.ub]

\* variant of squareThrough: the value squared is read by position, not
\* through the pointer
squareByPosition(d, p, k) == [d EXCEPT ![p[k]] = IntSquare(d[k]).val]

\* *d = *d * *d for the k-th entry of the table
squareThrough(d, p, k) == [d EXCEPT ![p[k]] = IntSquare(d[p[k]]).val]

\* demo.cpp / indirection.cpp doWork: st = [data, log, ub]; log lists, in
\* traversal order, the element each step wrote and the value it squared
RECURSIVE workFrom(_, _, _)
workFrom(p, k, st) ==
    IF k > Len(p) THEN st
    ELSE Bind([data |-> squareThrough(st.data, p, k),
               log  |-> Append(st.log, [idx |-> p[k], val |-> st.data[p[k]]]),
               ub   |-> st.ub \/ IntSquare(st.data[p[k]]).ub],
              LAMBDA st1 : workFrom(p, k + 1, st1))

\* void doWork(vector<int*>& data)
doWorkPtr(d, p) == workFrom(p, 1, [data |-> d, log |-> <<>>, ub |-> FALSE])

\* -------------------------------------------------------- cache invalidator
\* memcpy(dst, src, n)
memcpy(dst, src, n) == [k \in 1..Len(dst) |-> IF k <= n THEN src[k] ELSE dst[k]]

\* variant of clearCacheEffect: the copy lands in the data set
clearCacheIntoData(d, a, b) == [data |-> memcpy(d, b, cacheSize), buffA |-> a, buffB |-> b]

\* clearCache(): what it leaves in the data set and in its two static buffers
clearCacheEffect(d, a, b) == [data |-> d, buffA |-> memcpy(a, b, cacheSize), buffB |-> b]

\* -------------------------------------------------------------------- clock
\* high_resolution_clock ticks in nanoseconds and is not steady: between two
\* clk::now() calls the reading moves by any of these amounts
ClockSteps == {-1500, 2600}
NsPerUs == 1000
NsPerMs == 1000000

\* duration_cast<To>(d).count() for a coarser unit: truncating division
durationCast(d, nsPerUnit) == TruncDiv(d, nsPerUnit)

\* the unit averageRunTime is computed in
avgUnit(v) == IF v = "base" THEN NsPerUs ELSE 1

\* averageRunTime = duration_cast<unit>(runSum).count() / iterations.
\* base.cpp: iterations is unsigned int, the division stays signed (long).
\* demo.cpp, indirection.cpp: iterations is size_t, count() is converted to
\* unsigned long first.
averageOf(v, sum) ==
    IF v = "base"
    THEN TruncDiv(durationCast(sum, avgUnit(v)), iterations)
    ELSE ToULong(durationCast(sum, avgUnit(v))) \div iterations

\* ------------------------------------------------------------ control flow
\* variant of loopCond: one trial too many
loopCondInclusive(k) == k <= iterations
\* variant of afterPopulate: every program shuffles
afterPopulateShuffling(v) == "shuffle"

loopCond(k) == k < iterations
afterAlloc(v) == IF Indirect(v) THEN "build" ELSE "seed"
afterPopulate(v) == IF v = "demo" THEN "shuffle" ELSE "clear"
afterClear(v) == "start"
afterStart(v) == "work"
afterWork(v) == "stop"

VARIABLES
    variant,          \* which program runs
    pc,               \* position in main
    i,                \* loop counter
    data,             \* vector<int> data
    pointers,         \* vector<int*> pointers (indices into data)
    re,               \* default_random_engine re (0 before it is seeded)
    clock,            \* current reading of clk
    programStartTime, runStart, runTime, runSum,
    result,           \* base.cpp: the value doWork returned
    printed,          \* base.cpp: the "Run i: result" lines written
    buffA, buffB,     \* clearCache's static buffers
    report,           \* the Reporter's three numbers, <<>> before it ran
    exitStatus,       \* -1 while running, main's return value afterwards
    \* history variables
    seed,             \* the value re was seeded with
    seedings,         \* how often re was seeded
    engineCalls,      \* engine steps since seeding
    fills,            \* populateDataSet calls so far
    reLeft,           \* engine state left by the latest populate
    reTrialStart,     \* per trial: engine state and engine calls when its
                      \* populate began
    reShuffleStart,   \* engine state the latest shuffle began with
    trace,            \* steps of the current trial, in order
    ran,              \* loop counter values whose trial was accumulated
    elapsed,          \* the per-trial elapsed times added to runSum
    workLog,          \* this trial's squarings: [idx, val, fresh]
    fresh,            \* elements written by populate and not yet squared
    ub,               \* undefined behaviour (signed overflow) has happened
    atExit            \* measurement state when the loop ended

vars == <<variant, pc, i, data, pointers, re, clock, programStartTime, runStart,
          runTime, runSum, result, printed, buffA, buffB, report, exitStatus,
          seed, seedings, engineCalls, fills, reLeft, reTrialStart, reShuffleStart,
          trace, ran,
          elapsed, workLog, fresh, ub, atExit>>

prog  == <<variant, i, data, pointers, re, runSum>>
times == <<clock, programStartTime, runStart, runTime>>
outs  == <<result, printed, report, exitStatus>>
bufs  == <<buffA, buffB>>
rngH  == <<seed, seedings, engineCalls, fills, reLeft, reTrialStart,
           reShuffleStart>>
runH  == <<ran, elapsed, workLog, fresh, ub, atExit>>

Init ==
    /\ variant \in Variants
    /\ pc = "main"
    /\ i = 0
    /\ data = <<>>
    /\ pointers = <<>>
    /\ re = 0
    /\ clock = 0
    /\ programStartTime = 0 /\ runStart = 0 /\ runTime = 0 /\ runSum = 0
    /\ result = 0
    /\ printed = <<>>
    /\ buffA = [k \in 1..cacheSize |-> 0]
    /\ buffB = [k \in 1..cacheSize |-> 0]
    /\ report = <<>>
    /\ exitStatus = -1
    /\ seed = 0 /\ seedings = 0 /\ engineCalls = 0 /\ fills = 0
    /\ reLeft = 0 /\ reTrialStart = <<>> /\ reShuffleStart = 0
    /\ trace = <<>>
    /\ ran = <<>>
    /\ elapsed = <<>>
    /\ workLog = <<>>
    /\ fresh = {}
    /\ ub = FALSE
    /\ atExit = <<>>

\* programStartTime = clk::now(); data = vector<int>(intsInCache * 10)
StartProgram ==
    /\ pc = "main"
    /\ \E step \in ClockSteps :
          /\ clock' = clock + step
          /\ programStartTime' = clock + step
    /\ data' = [k \in 1..DataSize |-> 0]
    /\ pc' = afterAlloc(variant)
    /\ UNCHANGED <<variant, i, pointers, re, runSum, runStart, runTime,
                   outs, bufs, rngH, trace, runH>>

\* vector<int*> pointers(data.size()); pointers[i] = &data[i]
BuildTable ==
    /\ pc = "build"
    /\ pointers' = identityTable(Len(data))
    /\ pc' = "seed"
    /\ UNCHANGED <<variant, i, data, re, runSum, times, outs, bufs, rngH,
                   trace, runH>>

\* random_device rd; default_random_engine re(rd()); runSum(0)
SeedEngine ==
    /\ pc = "seed"
    /\ \E s \in Seeds :
          /\ re' = s
          /\ seed' = s
    /\ seedings' = seedings + 1
    /\ engineCalls' = 0
    /\ runSum' = 0
    /\ pc' = "loop"
    /\ UNCHANGED <<variant, i, data, pointers, times, outs, bufs, fills,
                   reLeft, reTrialStart, reShuffleStart, trace, runH>>

\* for (...; i < iterations; ...): enter the body
LoopEnter ==
    /\ pc = "loop"
    /\ loopCond(i)
    /\ pc' = "populate"
    /\ UNCHANGED <<prog, times, outs, bufs, rngH, trace, runH>>

\* the loop condition fails: fall through to the report
LoopExit ==
    /\ pc = "loop"
    /\ ~loopCond(i)
    /\ pc' = "report"
    /\ atExit' = <<[runSum |-> runSum, data |-> data, pointers |-> pointers]>>
    /\ UNCHANGED <<prog, times, outs, bufs, rngH, trace, ran, elapsed,
                   workLog, fresh, ub>>

\* populateDataSet(data, rng)
Populate ==
    /\ pc = "populate"
    /\ \E r \in {populateDataSet(variant, data, re)} :
           /\ data' = r.data
           /\ re' = r.re
           /\ engineCalls' = engineCalls + r.calls
           /\ reLeft' = r.re
    /\ fills' = fills + 1
    /\ reTrialStart' = Append(reTrialStart, [re |-> re, calls |-> engineCalls])
    /\ fresh' = 1..Len(data)
    /\ workLog' = <<>>
    /\ trace' = Append(trace, "populate")
    /\ pc' = afterPopulate(variant)
    /\ UNCHANGED <<variant, i, pointers, runSum, times, outs, bufs, seed,
                   seedings, reShuffleStart, ran, elapsed, ub, atExit>>

\* shuffle(begin(pointers), end(pointers), re)
Shuffle ==
    /\ pc = "shuffle"
    /\ \E r \in {shuffle(pointers, re)} :
           /\ pointers' = r.p
           /\ re' = r.re
           /\ engineCalls' = engineCalls + r.calls
    /\ reShuffleStart' = re
    /\ trace' = Append(trace, "shuffle")
    /\ pc' = "clear"
    /\ UNCHANGED <<variant, i, data, runSum, times, outs, bufs, seed, seedings,
                   fills, reLeft, reTrialStart, runH>>

\* clearCache()
ClearCache ==
    /\ pc = "clear"
    /\ \E r \in {clearCacheEffect(data, buffA, buffB)} :
           /\ data' = r.data
           /\ buffA' = r.buffA
           /\ buffB' = r.buffB
    /\ trace' = Append(trace, "clear")
    /\ pc' = afterClear(variant)
    /\ UNCHANGED <<variant, i, pointers, re, runSum, times, outs, rngH, runH>>

\* const auto runStart = clk::now()
TimerStart ==
    /\ pc = "start"
    /\ \E step \in ClockSteps :
          /\ clock' = clock + step
          /\ runStart' = clock + step
    /\ trace' = Append(trace, "start")
    /\ pc' = afterStart(variant)
    /\ UNCHANGED <<prog, programStartTime, runTime, outs, bufs, rngH, runH>>

\* base.cpp: const int result = doWork(data)
WorkSum ==
    /\ pc = "work"
    /\ variant = "base"
    /\ \E r \in {doWorkSum(data)} :
           /\ result' = r.ret
           /\ ub' = (ub \/ r.ub)
    /\ trace' = Append(trace, "work")
    /\ pc' = afterWork(variant)
    /\ UNCHANGED <<prog, times, printed, report, exitStatus, bufs, rngH, ran,
                   elapsed, workLog, fresh, atExit>>

\* demo.cpp, indirection.cpp: doWork(pointers)
WorkPtr ==
    /\ pc = "work"
    /\ Indirect(variant)
    /\ \E r \in {doWorkPtr(data, pointers)} :
           /\ data' = r.data
           /\ ub' = (ub \/ r.ub)
           /\ workLog' = [k \in 1..Len(r.log) |->
                             [idx   |-> r.log[k].idx,
                              val   |-> r.log[k].val,
                              fresh |-> /\ r.log[k].idx \in fresh
                                        /\ \A j \in 1..(k - 1) :
                                              r.log[j].idx # r.log[k].idx]]
           /\ fresh' = fresh \ {r.log[k].idx : k \in 1..Len(r.log)}
    /\ trace' = Append(trace, "work")
    /\ pc' = afterWork(variant)
    /\ UNCHANGED <<variant, i, pointers, re, runSum, times, outs, bufs, rngH,
                   ran, elapsed, atExit>>

\* const auto runTime = clk::now() - runStart
TimerStop ==
    /\ pc = "stop"
    /\ \E step \in ClockSteps :
          /\ clock' = clock + step
          /\ runTime' = (clock + step) - runStart
    /\ trace' = Append(trace, "stop")
    /\ pc' = "accum"
    /\ UNCHANGED <<prog, programStartTime, runStart, outs, bufs, rngH, runH>>

\* runSum += runTime
Accumulate ==
    /\ pc = "accum"
    /\ runSum' = runSum + runTime
    /\ elapsed' = Append(elapsed, runTime)
    /\ ran' = Append(ran, i)
    /\ trace' = Append(trace, "accumulate")
    /\ pc' = "endtrial"
    /\ UNCHANGED <<variant, i, data, pointers, re, times, outs, bufs, rngH,
                   workLog, fresh, ub, atExit>>

\* base.cpp: cout << "Run " << i + 1 << ": " << result; then ++i
EndTrial ==
    /\ pc = "endtrial"
    /\ printed' = IF variant = "base"
                  THEN Append(printed, <<i + 1, result>>)
                  ELSE printed
    /\ i' = i + 1
    /\ trace' = <<>>
    /\ pc' = "loop"
    /\ UNCHANGED <<variant, data, pointers, re, runSum, times, result, report,
                   exitStatus, bufs, rngH, runH>>

\* the three summary numbers, the summary lines, return 0
Report ==
    /\ pc = "report"
    /\ \E step \in ClockSteps :
          /\ clock' = clock + step
          /\ report' = Append(report,
                [cumulativeTime |-> durationCast(runSum, NsPerMs),
                 averageRunTime |-> averageOf(variant, runSum),
                 actualRuntime  |->
                     durationCast((clock + step) - programStartTime, NsPerMs)])
    /\ exitStatus' = 0
    /\ pc' = "done"
    /\ UNCHANGED <<prog, programStartTime, runStart, runTime, result, printed,
                   bufs, rngH, trace, runH>>

Next ==
    \/ StartProgram
    \/ BuildTable
    \/ SeedEngine
    \/ LoopEnter
    \/ LoopExit
    \/ Populate
    \/ Shuffle
    \/ ClearCache
    \/ TimerStart
    \/ WorkSum
    \/ WorkPtr
    \/ TimerStop
    \/ Accumulate
    \/ EndTrial
    \/ Report

Spec == Init /\ [][Next]_vars

\* main runs on one thread and every statement returns: a step that can be
\* taken is taken
FairSpec == Spec /\ WF_vars(Next)

\* =================================================================== claims
RECURSIVE SumSeq(_)
SumSeq(q) == IF q = <<>> THEN 0 ELSE q[1] + SumSeq(Tail(q))

IsPrefix(a, b) == Len(a) <= Len(b) /\ \A k \in 1..Len(a) : a[k] = b[k]

Last(q) == q[Len(q)]

IsBijection(p, n) ==
    /\ Len(p) = n
    /\ \A k \in 1..n : p[k] \in 1..n
    /\ \A j \in 1..n : Cardinality({k \in 1..n : p[k] = j}) = 1

AllTables(n) == {p \in [1..n -> 1..n] : IsBijection(p, n)}

Squares(d) == [k \in 1..Len(d) |-> d[k] * d[k]]

ExpectedTrial(v) ==
    IF v = "demo"
    THEN <<"populate", "shuffle", "clear", "start", "work", "stop", "accumulate">>
    ELSE <<"populate", "clear", "start", "work", "stop", "accumulate">>

\* the steps a trial has taken when main is at each position of the loop body
StepsAt(v, at) ==
    CASE at = "populate" -> 0
      [] at = "shuffle"  -> 1
      [] at = "clear"    -> Len(ExpectedTrial(v)) - 5
      [] at = "start"    -> Len(ExpectedTrial(v)) - 4
      [] at = "work"     -> Len(ExpectedTrial(v)) - 3
      [] at = "stop"     -> Len(ExpectedTrial(v)) - 2
      [] at = "accum"    -> Len(ExpectedTrial(v)) - 1
      [] at = "endtrial" -> Len(ExpectedTrial(v))
      [] OTHER           -> 0

\* C1: in every trial of every variant the steps run in the order populate,
\* (shuffle, in the shuffled variant only and there once), clear, start
\* timestamp, workload, end timestamp, accumulate; so between the two
\* timestamps only the workload runs, and the other two variants never shuffle.
C1_TrialOrder ==
    /\ IsPrefix(trace, ExpectedTrial(variant))
    /\ Len(trace) = StepsAt(variant, pc)
    /\ pc = "shuffle" => variant = "demo"

C1_Witness ==
    /\ variant = "demo"
    /\ pc = "endtrial"
    /\ i = 1
    /\ trace = <<"populate", "shuffle", "clear", "start", "work", "stop", "accumulate">>

\* C2: the loop terminates after exactly `iterations` trials, each run once
\* and in order, none skipped or retried; the Reporter then runs exactly once,
\* never before the last trial was accumulated, and main returns 0.
C2_Terminates ==
    /\ <>(pc = "done")
    /\ [](/\ IsPrefix(ran, [k \in 1..iterations |-> k - 1])
          /\ pc \in {"report", "done"} => Len(ran) = iterations
          /\ Len(report) = (IF pc = "done" THEN 1 ELSE 0)
          /\ exitStatus = (IF pc = "done" THEN 0 ELSE -1))

C2_Witness ==
    /\ pc = "done"
    /\ ran = [k \in 1..iterations |-> k - 1]
    /\ Len(report) = 1
    /\ exitStatus = 0

TableBuilt == Indirect(variant) /\ pc \notin {"main", "build"}

\* C3: once built, the Reference Table is a bijection onto the indices of the
\* Sample Buffer; it is the identity right after the build and for ever in the
\* unshuffled variant; populate, cache invalidation and the workload leave it
\* unchanged (only a shuffle changes it, to another bijection).
C3_TableBijection ==
    /\ [](TableBuilt =>
             /\ IsBijection(pointers, Len(data))
             /\ Len(data) = DataSize
             /\ (variant = "indirection" \/ fills = 0) =>
                    pointers = identityTable(DataSize))
    /\ [][pc # "shuffle" /\ TableBuilt => pointers' = pointers]_vars

C3_Witness ==
    /\ variant = "demo"
    /\ pc = "clear"
    /\ i = 1
    /\ pointers # identityTable(DataSize)
    /\ IsBijection(pointers, DataSize)

\* C4: the accumulator is the sum of the per-trial elapsed times, each of
\* which is >= 0, so it starts at zero and never decreases.
C4_ElapsedNonNegative ==
    /\ runSum = SumSeq(elapsed)
    /\ \A k \in 1..Len(elapsed) : elapsed[k] >= 0

\* C5: the reduction workload returns floor((v1^2 + ... + vn^2) / n) and
\* leaves the Sample Buffer as it was.
C5_ReductionMean ==
    [][pc = "work" /\ variant = "base" =>
          /\ result' = SumSeq(Squares(data)) \div Len(data)
          /\ data' = data]_vars

C5_Witness ==
    /\ variant = "base"
    /\ pc = "stop"
    /\ result = SumSeq(Squares(data)) \div Len(data)
    /\ SumSeq(Squares(data)) % Len(data) # 0
    /\ SumSeq(Squares(data)) > INT_MAX

\* C6: the in-place-square workload replaces every element by the square of
\* the value it held, whatever permutation the Reference Table is.
C6_SquareAnyOrder ==
    /\ [](pc = "work" /\ Indirect(variant) =>
             \A p \in AllTables(Len(data)) : doWorkPtr(data, p).data = Squares(data))
    /\ [][pc = "work" /\ Indirect(variant) => data' = Squares(data)]_vars

C6_Witness ==
    /\ variant = "demo"
    /\ pc = "stop"
    /\ pointers # identityTable(DataSize)
    /\ Len(workLog) = DataSize
    /\ \A k \in 1..DataSize : data[workLog[k].idx] = workLog[k].val * workLog[k].val
    /\ \E j, k \in 1..DataSize : data[j] # data[k]

\* C7: the reported average is the accumulated time divided by the iteration
\* count, the unit conversion before the division not changing the quotient,
\* and the report leaves accumulator, Sample Buffer and Reference Table alone.
C7_AverageExact ==
    pc = "done" =>
        /\ report[1].averageRunTime =
               TruncDiv(TruncDiv(atExit[1].runSum, iterations), avgUnit(variant))
        /\ runSum = atExit[1].runSum
        /\ data = atExit[1].data
        /\ pointers = atExit[1].pointers

\* C8: clearCache changes neither the Sample Buffer, the Reference Table, the
\* accumulator nor the generator; it writes only into its first scratch
\* buffer, and both scratch buffers keep their size.
C8_ClearCacheFrame ==
    [][pc = "clear" =>
          /\ data' = data /\ pointers' = pointers
          /\ runSum' = runSum /\ re' = re
          /\ buffB' = buffB
          /\ Len(buffA') = cacheSize /\ Len(buffB') = cacheSize]_vars

C8_Witness ==
    /\ pc = "start"
    /\ i = 1
    /\ Last(trace) = "clear"
    /\ \A k \in 1..DataSize : data[k] >= 1
    /\ Len(buffA) = cacheSize

FillRange == 1..SqrtIntMax

\* C9: in the indirection variants every value squared lies in
\* 1..isqrt(INT_MAX), was written by the populate of the same trial and is
\* squared once, so no squaring overflows.
C9_NoSquareOverflow ==
    Indirect(variant) =>
        /\ ~ub
        /\ pc \in {"shuffle", "clear", "start", "work"} =>
               /\ fresh = 1..DataSize
               /\ \A k \in 1..DataSize : data[k] \in FillRange
        /\ pc \in {"stop", "accum", "endtrial"} => Len(workLog) = DataSize
        /\ \A k \in 1..Len(workLog) :
               /\ workLog[k].val \in FillRange
               /\ workLog[k].fresh
               /\ workLog[k].val * workLog[k].val <= INT_MAX

C9_Witness ==
    /\ variant = "indirection"
    /\ pc = "stop"
    /\ i = 1
    /\ Len(workLog) = DataSize
    /\ \E k \in 1..DataSize : workLog[k].val = SqrtIntMax

\* C10: one generator, seeded once, drives every fill and every shuffle: its
\* state is always the seed advanced by all the engine calls made so far;
\* each populate draws once per element from it, so each trial's fill starts
\* where the previous trial left the generator, and a shuffle starts where
\* the populate of its trial left it.
C10_SharedGenerator ==
    /\ seedings = (IF pc \in {"main", "build", "seed"} THEN 0 ELSE 1)
    /\ seedings = 1 =>
          /\ re = EngineN(seed, engineCalls)
          /\ engineCalls >= fills * DataSize
          /\ \A k \in 1..Len(reTrialStart) :
                /\ reTrialStart[k].re = EngineN(seed, reTrialStart[k].calls)
                /\ k > 1 => reTrialStart[k].calls >=
                                reTrialStart[k - 1].calls + DataSize
          /\ Len(reTrialStart) = fills
          /\ (variant = "demo" /\ fills > 0 /\ pc # "shuffle" /\ pc # "populate") =>
                reShuffleStart = reLeft
          /\ (variant # "demo" /\ fills > 0) => re = reLeft

C10_Witness ==
    /\ variant = "demo"
    /\ pc = "clear"
    /\ fills = 2
    /\ engineCalls > 2 * DataSize + 2 * (DataSize - 1)
    /\ reTrialStart[2].re # reTrialStart[1].re
    /\ reShuffleStart = reLeft

====
